---- MODULE Spec2Model ----
(***************************************************************************)
(* LittleJS object system: EngineObject.update (integration, object-object *)
(* collision, tile collision), the parent/child hierarchy and destroy().   *)
(*                                                                         *)
(* Numbers.  JavaScript numbers are modelled as exact rationals <<n, d>>   *)
(* in lowest terms with d > 0 (IEEE rounding is not modelled).  The only   *)
(* irrational operation of the code, the square root in Vector2.length, is *)
(* exact when the root is rational and rounded down to 1/1000 otherwise;   *)
(* a vector scaled by the inverse of such a rounded length is rounded to   *)
(* 1/10000 per component.                                                  *)
(* Angles are counted in quarter turns (PI/2 radians), so that the sine    *)
(* and cosine of every angle of the model are exact.                       *)
(***************************************************************************)
EXTENDS Integers, Sequences, FiniteSets, TLC

(***************************************************************************)
(* Rational arithmetic                                                     *)
(***************************************************************************)
IAbs(n) == IF n < 0 THEN -n ELSE n

RECURSIVE Gcd(_, _)
Gcd(a, b) == IF b = 0 THEN a ELSE Gcd(b, a % b)

\* n/d in lowest terms, d # 0
Rat(n, d) ==
    LET g == Gcd(IAbs(n), IAbs(d))
        s == IF d < 0 THEN -1 ELSE 1
    IN  <<(s * n) \div g, (s * d) \div g>>

ToRat(i) == <<i, 1>>
Zero == <<0, 1>>
One == <<1, 1>>
\* the result of a division by zero (Infinity or NaN in JavaScript)
NotFinite == <<0, 0>>

\* an operand that is not finite gives a result that is not finite
Plus(a, b) ==
    IF a[2] = 0 \/ b[2] = 0 THEN NotFinite
    ELSE LET g == Gcd(a[2], b[2])
         IN  Rat(a[1] * (b[2] \div g) + b[1] * (a[2] \div g), (a[2] \div g) * b[2])

Neg(a) == <<-a[1], a[2]>>

Minus(a, b) == Plus(a, Neg(b))

Times(a, b) ==
    IF a[2] = 0 \/ b[2] = 0 THEN NotFinite
    ELSE LET g1 == Gcd(IAbs(a[1]), b[2])
             g2 == Gcd(IAbs(b[1]), a[2])
         IN  <<(a[1] \div g1) * (b[1] \div g2), (a[2] \div g2) * (b[2] \div g1)>>

Over(a, b) ==
    IF b[1] = 0 THEN NotFinite
    ELSE IF b[1] < 0 THEN Times(a, <<-b[2], -b[1]>>)
    ELSE Times(a, <<b[2], b[1]>>)

\* a comparison with an operand that is not finite is false
Less(a, b) ==
    IF a[2] = 0 \/ b[2] = 0 THEN FALSE
    ELSE LET g == Gcd(a[2], b[2])
         IN  a[1] * (b[2] \div g) < b[1] * (a[2] \div g)

Truthy(a) == a[1] # 0

\* x|0 : truncation toward zero
Trunc(a) == IF a[1] >= 0 THEN ToRat(a[1] \div a[2]) ELSE ToRat(-((-a[1]) \div a[2]))

\* a rounded toward zero to a multiple of 1/10000
Round(a) == Rat(Trunc(Times(a, ToRat(10000)))[1], 10000)

RECURSIVE ISqrtIn(_, _, _)
ISqrtIn(n, lo, hi) ==
    IF hi - lo <= 1 THEN lo
    ELSE LET mid == (lo + hi) \div 2
         IN  IF mid * mid <= n THEN ISqrtIn(n, mid, hi) ELSE ISqrtIn(n, lo, mid)

\* the largest k with k*k <= n (bisection; 46341^2 exceeds every integer of TLC)
ISqrt(n) == ISqrtIn(n, 0, 46341)

\* a is the square of a rational
IsSquare(a) == ISqrt(a[1]) * ISqrt(a[1]) = a[1] /\ ISqrt(a[2]) * ISqrt(a[2]) = a[2]

\* x**.5 : exact for the square of a rational, else rounded down to 1/1000
Sqrt(a) ==
    LET rn == ISqrt(a[1])
        rd == ISqrt(a[2])
    IN  IF rn * rn = a[1] /\ rd * rd = a[2] THEN <<rn, rd>>
        ELSE LET g == Gcd(a[2], 1000000)
             IN  Rat(ISqrt((a[1] * (1000000 \div g)) \div (a[2] \div g)), 1000)

(***************************************************************************)
(* Sequencing: the value of F at x, where x is evaluated once (one         *)
(* statement's result handed to the statements after it)                   *)
(***************************************************************************)
Then(x, F(_)) == CHOOSE r \in {F(v) : v \in {x}} : TRUE

(***************************************************************************)
(* Utilities (engineUtilities.js)                                          *)
(***************************************************************************)
abs(a) == IF Less(a, Zero) THEN Neg(a) ELSE a

max(a, b) == IF Less(b, a) THEN a ELSE b

sign(a) == IF Less(a, Zero) THEN Neg(One) ELSE One

clamp(v, lo, hi) == IF Less(v, lo) THEN lo ELSE IF Less(hi, v) THEN hi ELSE v

\* An interpolation that forgets to start from lo
lerpFromZero(p, lo, hi) == Times(clamp(p, Zero, One), Minus(hi, lo))

lerp(p, lo, hi) == Plus(lo, Times(clamp(p, Zero, One), Minus(hi, lo)))

Vec(x, y) == [x |-> x, y |-> y]

ZeroVec == Vec(Zero, Zero)

isOverlapping(pA, sA, pB, sB) ==
    /\ Less(Times(abs(Minus(pA.x, pB.x)), ToRat(2)), Plus(sA.x, sB.x))
    /\ Less(Times(abs(Minus(pA.y, pB.y)), ToRat(2)), Plus(sA.y, sB.y))

add(u, v) == Vec(Plus(u.x, v.x), Plus(u.y, v.y))

subtract(u, v) == Vec(Minus(u.x, v.x), Minus(u.y, v.y))

multiply(u, v) == Vec(Times(u.x, v.x), Times(u.y, v.y))

scale(u, s) == Vec(Times(u.x, s), Times(u.y, s))

lengthSquared(u) == Plus(Times(u.x, u.x), Times(u.y, u.y))

length(u) == Sqrt(lengthSquared(u))

\* u.scale(s/len) where len is u.length(): exact when the length is
ScaleTo(u, s, len) ==
    IF IsSquare(lengthSquared(u)) THEN scale(u, Over(s, len))
    ELSE Vec(Round(Times(u.x, Over(s, len))), Round(Times(u.y, Over(s, len))))

\* cos and sin of an angle given in quarter turns
Cos(q) == CASE q % 4 = 0 -> One [] q % 4 = 2 -> Neg(One) [] OTHER -> Zero

Sin(q) == CASE q % 4 = 1 -> One [] q % 4 = 3 -> Neg(One) [] OTHER -> Zero

\* Vector2.rotate by a quarter turns (a is an integer-valued rational)
rotate(u, a) ==
    LET c == Cos(a[1])
        s == Sin(a[1])
    IN  Vec(Minus(Times(u.x, c), Times(u.y, s)), Plus(Times(u.x, s), Times(u.y, c)))

\* new Vector2().setAngle(q, len) for an angle of q quarter turns
setAngle(q, len) == Vec(Times(len, Sin(q)), Times(len, Cos(q)))

\* the vectors randVector(len) may return: the random angle is one of the
\* four quarter turns
randVector(len) == {setAngle(q, len) : q \in 0..3}

\* Math.floor
MathFloor(a) ==
    ToRat(IF a[1] >= 0 THEN a[1] \div a[2] ELSE 0 - (((0 - a[1]) + a[2] - 1) \div a[2]))

(***************************************************************************)
(* Vector2 methods on instances.  h is the heap of Vector2 instances, r    *)
(* the receiver's id and a the argument's; a call gives the heap after it  *)
(* and the id of the instance it returns.                                  *)
(***************************************************************************)
\* new Vector2(x, y)
New(h, v) == [heap |-> Append(h, v), ret |-> Len(h) + 1]

copy(h, r) == New(h, Vec(h[r].x, h[r].y))

Vector2add(h, r, a) == New(h, add(h[r], h[a]))

Vector2subtract(h, r, a) == New(h, subtract(h[r], h[a]))

Vector2multiply(h, r, a) == New(h, multiply(h[r], h[a]))

divide(h, r, a) == New(h, Vec(Over(h[r].x, h[a].x), Over(h[r].y, h[a].y)))

Vector2scale(h, r, s) == New(h, scale(h[r], s))

\* const l = this.length(); return l ? this.scale(length/l) : new Vector2(length)
normalize(h, r, len) ==
    LET l == length(h[r])
    IN  IF Truthy(l) THEN New(h, ScaleTo(h[r], len, l)) ELSE New(h, Vec(len, Zero))

\* const l = this.length(); return l > length ? this.scale(length/l) : this
clampLength(h, r, len) ==
    LET l == length(h[r])
    IN  IF Less(len, l) THEN New(h, ScaleTo(h[r], len, l)) ELSE [heap |-> h, ret |-> r]

\* this.x = length*Math.sin(a); this.y = length*Math.cos(a); return this
Vector2setAngle(h, r, q, len) == [heap |-> [h EXCEPT ![r] = setAngle(q, len)], ret |-> r]

Vector2rotate(h, r, q) == New(h, rotate(h[r], ToRat(q)))

invert(h, r) == New(h, Vec(h[r].y, Neg(h[r].x)))

floor(h, r) == New(h, Vec(MathFloor(h[r].x), MathFloor(h[r].y)))

\* this.add(v.subtract(this).scale(clamp(p))): the two instances made on the
\* way are dropped, the third is returned
Vector2lerp(h, r, a, p) ==
    New(h, add(h[r], scale(subtract(h[a], h[r]), clamp(p, Zero, One))))

(***************************************************************************)
(* State                                                                   *)
(***************************************************************************)
VARIABLES
    objs,           \* engineObjects: object id -> the EngineObject's fields
    gravity,        \* the engine's global gravity
    tileCollision,  \* the blocked cells of the tile collision layer
    last,           \* what the most recent call did (history, read by no operation)
    calls,          \* number of calls made so far
    pass,           \* number of update() calls made so far if they followed the
                    \* registration order (1, 2, 3, 1, ...) of the engine's pass, else -1
    scene,          \* the name of the initial scene (never changes)
    vectors         \* the Vector2 instances the game holds: instance id -> x and y

vars == <<objs, gravity, tileCollision, last, calls, pass, scene, vectors>>

Objects == 1..3

\* groundObject and parent hold an object id, or 0 for none (undefined or 0 in
\* the code); groundObject holds FromTiles for the value true set by tile landing
None == 0
FromTiles == 0 - 1

\* No margin: the body is pushed exactly to the boundary
noEpsilon == Zero

epsilon == Rat(1, 1000)

pushAwayAccel == Rat(1, 1000)

objectMaxSpeed == One

enablePhysicsSolver == TRUE

\* engineObjectsCollide: the objects flagged collideSolidObjects, in registration order
engineObjectsCollide == SelectSeq([k \in Objects |-> k], LAMBDA k : objs[k].collideSolidObjects)

\* tileCollisionTest(pos, size): some blocked cell [cx, cx+1) x [cy, cy+1) meets the
\* open box of the given centre and size
tileCollisionTest(pos, size) ==
    \E c \in tileCollision :
        /\ Less(ToRat(c[1]), Plus(pos.x, Over(size.x, ToRat(2))))
        /\ Less(Minus(pos.x, Over(size.x, ToRat(2))), ToRat(c[1] + 1))
        /\ Less(ToRat(c[2]), Plus(pos.y, Over(size.y, ToRat(2))))
        /\ Less(Minus(pos.y, Over(size.y, ToRat(2))), ToRat(c[2] + 1))

getMirrorSign(o) == IF o.mirror THEN Neg(One) ELSE One

\* A hook that agrees to every collision, whatever the override says
collideWithAnything(o, k) == TRUE

\* o.collideWithObject(k): the default returns 1; a subclass override is the set
\* of objects it agrees to collide with
collideWithObject(o, k) == k \in o.collideWith

(***************************************************************************)
(* EngineObject.update.  The operators below thread a record w through the *)
(* statements of the method: w.objs are the objects' fields, w.events the  *)
(* collision responses applied so far, w.hooks the collideWithObject calls *)
(* made (<<receiver, argument>>), w.tests the positions handed to          *)
(* tileCollisionTest and w.seen the entries of engineObjectsCollide the    *)
(* loop has come to, each with the position this object had then.          *)
(***************************************************************************)
Event(kind, axis, i, k, before, after, down) ==
    [kind |-> kind, axis |-> axis, me |-> i, o |-> k,
     posMe |-> before[i].pos,
     vMe |-> before[i].velocity, vO |-> before[k].velocity,
     oGround |-> before[k].groundObject,
     vMe1 |-> after[i].velocity, vO1 |-> after[k].velocity,
     posMe1 |-> after[i].pos, wasMovingDown |-> down]

\* A follower that takes the parent's angle and forgets its own local angle
FollowParentAngle(me, parent) ==
    [me EXCEPT
        !.pos = add(rotate(multiply(me.localPos, Vec(getMirrorSign(parent), One)),
                           Neg(parent.angle)), parent.pos),
        !.angle = parent.angle]

\* lines 641-643: copy parent pos/angle
FollowParent(me, parent) ==
    [me EXCEPT
        !.pos = add(rotate(multiply(me.localPos, Vec(getMirrorSign(parent), One)),
                           Neg(parent.angle)), parent.pos),
        !.angle = Plus(Times(getMirrorSign(parent), me.localAngle), parent.angle)]

\* lines 648-655: limit max speed, apply physics
Integrate(me) ==
    LET cx == clamp(me.velocity.x, Neg(objectMaxSpeed), objectMaxSpeed)
        cy == clamp(me.velocity.y, Neg(objectMaxSpeed), objectMaxSpeed)
        vx == Times(me.damping, cx)
        vy == Plus(Times(me.damping, cy), Times(gravity, me.gravityScale))
        av == Times(me.angleVelocity, me.angleDamping)
    IN  [me EXCEPT
            !.velocity = Vec(vx, vy),
            !.pos = Vec(Plus(me.pos.x, vx), Plus(me.pos.y, vy)),
            !.angleVelocity = av,
            !.angle = Plus(me.angle, av)]

\* A friction step that keeps the ground reference
FrictionKeepsGround(os, i) ==
    LET me == os[i]
        groundSpeed == IF me.groundObject \in Objects
                       THEN os[me.groundObject].velocity.x ELSE Zero
    IN  IF me.groundObject = None THEN os
        ELSE [os EXCEPT
                ![i].velocity.x = Plus(groundSpeed,
                                       Times(Minus(me.velocity.x, groundSpeed), me.friction))]

\* lines 665-672: apply friction in local space of ground object
Friction(os, i) ==
    LET me == os[i]
        groundSpeed == IF me.groundObject \in Objects
                       THEN os[me.groundObject].velocity.x ELSE Zero
    IN  IF me.groundObject = None THEN os
        ELSE [os EXCEPT
                ![i].velocity.x = Plus(groundSpeed,
                                       Times(Minus(me.velocity.x, groundSpeed), me.friction)),
                ![i].groundObject = None]

\* A push-away that does not ask whether the other object is fixed
PushAwayBoth(os, i, k, oldPos, rnd) ==
    LET deltaPos == subtract(oldPos, os[k].pos)
        len == length(deltaPos)
        velocity == IF Less(len, Rat(1, 100)) THEN rnd
                    ELSE ScaleTo(deltaPos, pushAwayAccel, len)
    IN  [os EXCEPT ![i].velocity = add(os[i].velocity, velocity),
                   ![k].velocity = subtract(os[k].velocity, velocity)]

\* lines 695-701: if already was touching, try to push away
PushAway(os, i, k, oldPos, rnd) ==
    LET deltaPos == subtract(oldPos, os[k].pos)
        len == length(deltaPos)
        velocity == IF Less(len, Rat(1, 100)) THEN rnd
                    ELSE ScaleTo(deltaPos, pushAwayAccel, len)
        os1 == [os EXCEPT ![i].velocity = add(os[i].velocity, velocity)]
    IN  IF Truthy(os1[k].mass)
        THEN [os1 EXCEPT ![k].velocity = subtract(os1[k].velocity, velocity)]
        ELSE os1

\* A blend in which each object interpolates by its own elasticity
BlendOwnElasticity(m0, v0, e0, m1, v1, e1) ==
    LET inelastic == Over(Plus(Times(m0, v0), Times(m1, v1)), Plus(m0, m1))
        elastic0 == Plus(Over(Times(v0, Minus(m0, m1)), Plus(m0, m1)),
                         Over(Times(Times(v1, ToRat(2)), m1), Plus(m0, m1)))
        elastic1 == Plus(Over(Times(v1, Minus(m1, m0)), Plus(m0, m1)),
                         Over(Times(Times(v0, ToRat(2)), m0), Plus(m0, m1)))
    IN  <<lerp(e0, inelastic, elastic0), lerp(e1, inelastic, elastic1)>>

\* A blend that divides by the difference of the masses
BlendByDifference(m0, v0, e0, m1, v1, e1) ==
    LET inelastic == Over(Plus(Times(m0, v0), Times(m1, v1)), Minus(m0, m1))
        elastic0 == Plus(Over(Times(v0, Minus(m0, m1)), Minus(m0, m1)),
                         Over(Times(Times(v1, ToRat(2)), m1), Minus(m0, m1)))
        elastic1 == Plus(Over(Times(v1, Minus(m1, m0)), Minus(m0, m1)),
                         Over(Times(Times(v0, ToRat(2)), m0), Minus(m0, m1)))
        elasticity == max(e0, e1)
    IN  <<lerp(elasticity, inelastic, elastic0), lerp(elasticity, inelastic, elastic1)>>

\* A blend whose inelastic velocity is the plain average of the two velocities
BlendAverage(m0, v0, e0, m1, v1, e1) ==
    LET inelastic == Over(Plus(v0, v1), ToRat(2))
        elastic0 == Plus(Over(Times(v0, Minus(m0, m1)), Plus(m0, m1)),
                         Over(Times(Times(v1, ToRat(2)), m1), Plus(m0, m1)))
        elastic1 == Plus(Over(Times(v1, Minus(m1, m0)), Plus(m0, m1)),
                         Over(Times(Times(v0, ToRat(2)), m0), Plus(m0, m1)))
        elasticity == max(e0, e1)
    IN  <<lerp(elasticity, inelastic, elastic0), lerp(elasticity, inelastic, elastic1)>>

\* lines 729-740 and 750-761: the velocities <<this, o>> on one axis after the
\* inelastic/elastic blend (m0, v0 are this object's, m1, v1 are o's)
Blend(m0, v0, e0, m1, v1, e1) ==
    LET inelastic == Over(Plus(Times(m0, v0), Times(m1, v1)), Plus(m0, m1))
        elastic0 == Plus(Over(Times(v0, Minus(m0, m1)), Plus(m0, m1)),
                         Over(Times(Times(v1, ToRat(2)), m1), Plus(m0, m1)))
        elastic1 == Plus(Over(Times(v1, Minus(m1, m0)), Plus(m0, m1)),
                         Over(Times(Times(v0, ToRat(2)), m0), Plus(m0, m1)))
        elasticity == max(e0, e1)
    IN  <<lerp(elasticity, inelastic, elastic0), lerp(elasticity, inelastic, elastic1)>>

\* line 713: resolve y collision
ResolvesY(smallStepUp, isBlockedX, isBlockedY) == smallStepUp \/ isBlockedY \/ ~isBlockedX

\* An x resolution that is left out when neither axis was blocked
ResolvesXIfBlocked(smallStepUp, isBlockedX, isBlockedY) == ~smallStepUp /\ isBlockedX

\* line 743: resolve x collision
ResolvesX(smallStepUp, isBlockedX, isBlockedY) == ~smallStepUp /\ (isBlockedX \/ ~isBlockedY)

\* line 717: the other object is grounded and this one was moving down, or the
\* other object is fixed
LandsOn(o, wasMovingDown) == (o.groundObject # None /\ wasMovingDown) \/ ~Truthy(o.mass)

\* lines 716-741
ResolveY(w, i, k, oldPos, wasMovingDown) ==
    LET me == w.objs[i]
        o == w.objs[k]
        sizeBoth == add(me.size, o.size)
        posY == Plus(o.pos.y, Times(Plus(Over(sizeBoth.y, ToRat(2)), epsilon),
                                    sign(Minus(oldPos.y, o.pos.y))))
        os1 == [w.objs EXCEPT ![i].pos.y = posY]
        b == Blend(me.mass, me.velocity.y, me.elasticity, o.mass, o.velocity.y, o.elasticity)
        done(kind, os2) ==
            [w EXCEPT !.objs = os2,
                !.events = Append(@, Event(kind, "y", i, k, w.objs, os2, wasMovingDown))]
    IN  IF LandsOn(o, wasMovingDown)
        THEN Then([os1 EXCEPT
                      ![i].groundObject = IF wasMovingDown THEN k ELSE @,
                      ![i].velocity.y = Times(@, Neg(me.elasticity))],
                  LAMBDA os2 : done("bounce", os2))
        ELSE IF Truthy(o.mass)
        THEN Then([os1 EXCEPT ![i].velocity.y = b[1], ![k].velocity.y = b[2]],
                  LAMBDA os2 : done("blend", os2))
        ELSE Then(os1, LAMBDA os2 : done("move", os2))

\* lines 746-764
ResolveX(w, i, k, oldPos, wasMovingDown) ==
    LET me == w.objs[i]
        o == w.objs[k]
        sizeBoth == add(me.size, o.size)
        posX == Plus(o.pos.x, Times(Plus(Over(sizeBoth.x, ToRat(2)), epsilon),
                                    sign(Minus(oldPos.x, o.pos.x))))
        os1 == [w.objs EXCEPT ![i].pos.x = posX]
        b == Blend(me.mass, me.velocity.x, me.elasticity, o.mass, o.velocity.x, o.elasticity)
        done(kind, os2) ==
            [w EXCEPT !.objs = os2,
                !.events = Append(@, Event(kind, "x", i, k, w.objs, os2, wasMovingDown))]
    IN  IF Truthy(o.mass)
        THEN Then([os1 EXCEPT ![i].velocity.x = b[1], ![k].velocity.x = b[2]],
                  LAMBDA os2 : done("blend", os2))
        ELSE Then([os1 EXCEPT ![i].velocity.x = Times(@, Neg(me.elasticity))],
                  LAMBDA os2 : done("bounce", os2))

\* A skip test that does not look at the destroyed flag
SkipsLive(me, o, i, k) == (~me.isSolid /\ ~o.isSolid) \/ o.parent # None \/ k = i

\* line 681: if (!this.isSolid & !o.isSolid || o.destroyed || o.parent || o == this)
Skips(me, o, i, k) == (~me.isSolid /\ ~o.isSolid) \/ o.destroyed \/ o.parent # None \/ k = i

\* lines 681-766: the body of the loop over engineObjectsCollide, for the entry k
CollideWith(w, i, k, oldPos, wasMovingDown, rnd) ==
    LET me == w.objs[i]
        o == w.objs[k]
        sizeBoth == add(me.size, o.size)
        smallStepUp == Less(Plus(sizeBoth.y, gravity),
                            Times(Minus(oldPos.y, o.pos.y), ToRat(2)))
        isBlockedX == Less(Times(abs(Minus(oldPos.y, o.pos.y)), ToRat(2)), sizeBoth.y)
        isBlockedY == Less(Times(abs(Minus(oldPos.x, o.pos.x)), ToRat(2)), sizeBoth.x)
        wh == [w EXCEPT !.hooks = @ \o <<(<<i, k>>), (<<k, i>>)>>]
        resolveY(w1) == IF ResolvesY(smallStepUp, isBlockedX, isBlockedY)
                        THEN ResolveY(w1, i, k, oldPos, wasMovingDown) ELSE w1
        resolveX(w1) == IF ResolvesX(smallStepUp, isBlockedX, isBlockedY)
                        THEN ResolveX(w1, i, k, oldPos, wasMovingDown) ELSE w1
    IN  IF Skips(me, o, i, k)
        THEN w
        ELSE IF ~isOverlapping(me.pos, me.size, o.pos, o.size)
        THEN w
        ELSE IF ~collideWithObject(me, k) \/ ~collideWithObject(o, i)
        THEN wh
        ELSE IF isOverlapping(oldPos, me.size, o.pos, o.size)
        THEN Then(PushAway(w.objs, i, k, oldPos, rnd[k]),
                  LAMBDA os2 :
                    [wh EXCEPT !.objs = os2,
                        !.events = Append(@, Event("push", "-", i, k, w.objs, os2,
                                                   wasMovingDown))])
        ELSE Then(wh, LAMBDA w1 : Then(resolveY(w1), LAMBDA w2 : resolveX(w2)))

\* line 678: for (const o of engineObjectsCollide), from the n-th entry on
RECURSIVE CollideLoop(_, _, _, _, _, _)
CollideLoop(w, i, n, oldPos, wasMovingDown, rnd) ==
    IF n > Len(engineObjectsCollide) THEN w
    ELSE Then(CollideWith([w EXCEPT !.seen = Append(@, [o |-> engineObjectsCollide[n],
                                                        pos |-> w.objs[i].pos])],
                          i, engineObjectsCollide[n], oldPos, wasMovingDown, rnd),
              LAMBDA w1 : CollideLoop(w1, i, n + 1, oldPos, wasMovingDown, rnd))

\* A resolver that restores y only when the y substitution is blocked
TileResolvesYIfBlocked(isBlockedX, isBlockedY) == isBlockedY

\* A resolver that also bounces on x at an outer corner
TileResolvesXAtCorner(isBlockedX, isBlockedY) == isBlockedX \/ ~isBlockedY

\* line 781: if (isBlockedY || !isBlockedX), bounce and restore on the y axis
TileResolvesY(isBlockedX, isBlockedY) == isBlockedY \/ ~isBlockedX

\* line 797: if (isBlockedX), bounce and restore on the x axis
TileResolvesX(isBlockedX, isBlockedY) == isBlockedX

\* A tile resolver that does not ask whether the old position was blocked
TileCollideEjects(w, i, oldPos, wasMovingDown) ==
    LET me == w.objs[i]
        posY == Vec(oldPos.x, me.pos.y)
        posX == Vec(me.pos.x, oldPos.y)
        isBlockedY == tileCollisionTest(posY, me.size)
        isBlockedX == tileCollisionTest(posX, me.size)
        bounceY == Times(me.velocity.y, Neg(me.elasticity))
        bottom == Minus(oldPos.y, Over(me.size.y, ToRat(2)))
        o == Minus(Trunc(bottom), bottom)
        settles == /\ Less(o, Zero)
                   /\ Less(Plus(Times(me.damping, bounceY), Times(gravity, me.gravityScale)), o)
        settleY == IF Truthy(me.damping)
                   THEN Over(Minus(o, Times(gravity, me.gravityScale)), me.damping)
                   ELSE Zero
        resolveY(os) == IF TileResolvesY(isBlockedX, isBlockedY)
                        THEN [os EXCEPT
                                ![i].groundObject = IF wasMovingDown THEN FromTiles ELSE None,
                                ![i].velocity.y = IF settles THEN settleY ELSE bounceY,
                                ![i].pos.y = oldPos.y]
                        ELSE os
        resolveX(os) == IF TileResolvesX(isBlockedX, isBlockedY)
                        THEN [os EXCEPT
                                ![i].pos.x = oldPos.x,
                                ![i].velocity.x = Times(@, Neg(me.elasticity))]
                        ELSE os
        kind == IF isBlockedX THEN (IF isBlockedY THEN "tileXY" ELSE "tileX")
                ELSE (IF isBlockedY THEN "tileY" ELSE "tileCorner")
    IN  IF ~tileCollisionTest(me.pos, me.size)
        THEN [w EXCEPT !.tests = <<me.pos>>]
        ELSE Then(resolveX(resolveY(w.objs)),
                  LAMBDA os2 :
                    [w EXCEPT !.objs = os2,
                        !.tests = <<me.pos, oldPos, posY, posX>>,
                        !.events = Append(@, Event(kind, "-", i, i, w.objs, os2,
                                                   wasMovingDown))])

\* lines 772-804: check collision against tiles
TileCollide(w, i, oldPos, wasMovingDown) ==
    LET me == w.objs[i]
        posY == Vec(oldPos.x, me.pos.y)
        posX == Vec(me.pos.x, oldPos.y)
        isBlockedY == tileCollisionTest(posY, me.size)
        isBlockedX == tileCollisionTest(posX, me.size)
        bounceY == Times(me.velocity.y, Neg(me.elasticity))
        bottom == Minus(oldPos.y, Over(me.size.y, ToRat(2)))
        o == Minus(Trunc(bottom), bottom)
        settles == /\ Less(o, Zero)
                   /\ Less(Plus(Times(me.damping, bounceY), Times(gravity, me.gravityScale)), o)
        settleY == IF Truthy(me.damping)
                   THEN Over(Minus(o, Times(gravity, me.gravityScale)), me.damping)
                   ELSE Zero
        resolveY(os) == IF TileResolvesY(isBlockedX, isBlockedY)
                        THEN [os EXCEPT
                                ![i].groundObject = IF wasMovingDown THEN FromTiles ELSE None,
                                ![i].velocity.y = IF settles THEN settleY ELSE bounceY,
                                ![i].pos.y = oldPos.y]
                        ELSE os
        resolveX(os) == IF TileResolvesX(isBlockedX, isBlockedY)
                        THEN [os EXCEPT
                                ![i].pos.x = oldPos.x,
                                ![i].velocity.x = Times(@, Neg(me.elasticity))]
                        ELSE os
        kind == IF isBlockedX THEN (IF isBlockedY THEN "tileXY" ELSE "tileX")
                ELSE (IF isBlockedY THEN "tileY" ELSE "tileCorner")
    IN  IF ~tileCollisionTest(me.pos, me.size)
        THEN [w EXCEPT !.tests = <<me.pos>>]
        ELSE IF tileCollisionTest(oldPos, me.size)
        THEN [w EXCEPT !.tests = <<me.pos, oldPos>>]
        ELSE Then(resolveX(resolveY(w.objs)),
                  LAMBDA os2 :
                    [w EXCEPT !.objs = os2,
                        !.tests = <<me.pos, oldPos, posY, posX>>,
                        !.events = Append(@, Event(kind, "-", i, i, w.objs, os2,
                                                   wasMovingDown))])

\* lines 636-806: this.update() of object i; rnd[k] is the vector randVector
\* returns if the push-away from object k asks for one
update(os, i, rnd) ==
    LET me == os[i]
        w0 == [objs |-> os, events |-> <<>>, hooks |-> <<>>, tests |-> <<>>, seen |-> <<>>]
        oldPos == me.pos
        wasMovingDown(os1) == Less(os1[i].velocity.y, Zero)
        objects(os1) ==
            IF me.collideSolidObjects
            THEN CollideLoop([w0 EXCEPT !.objs = Friction(os1, i)], i, 1, oldPos,
                             wasMovingDown(os1), rnd)
            ELSE [w0 EXCEPT !.objs = Friction(os1, i)]
        tiles(os1, w2) ==
            IF me.collideTiles THEN TileCollide(w2, i, oldPos, wasMovingDown(os1)) ELSE w2
    IN  IF me.parent # None
        THEN [w0 EXCEPT !.objs[i] = FollowParent(me, os[me.parent])]
        ELSE Then([os EXCEPT ![i] = Integrate(me)],
                  LAMBDA os1 :
                    IF ~enablePhysicsSolver \/ ~Truthy(me.mass)
                    THEN [w0 EXCEPT !.objs = os1]
                    ELSE Then(objects(os1), LAMBDA w2 : tiles(os1, w2)))

(***************************************************************************)
(* Hierarchy and destruction                                               *)
(***************************************************************************)
\* Array.indexOf: the first index of x in s, or 0 when s does not hold x
indexOf(s, x) == IF \E n \in 1..Len(s) : s[n] = x
                 THEN CHOOSE n \in 1..Len(s) : s[n] = x /\ \A m \in 1..(n - 1) : s[m] # x
                 ELSE 0

includes(s, x) == \E n \in 1..Len(s) : s[n] = x

\* s.splice(indexOf(x), 1): an index of -1 (x not found) removes the last element
splice(s, x) ==
    LET n == IF includes(s, x) THEN indexOf(s, x) ELSE Len(s)
    IN  [m \in 1..(Len(s) - (IF Len(s) = 0 THEN 0 ELSE 1)) |-> IF m < n THEN s[m] ELSE s[m + 1]]

\* lines 866-873: p.addChild(c, localPos, localAngle)
addChild(os, p, c, localPos, localAngle) ==
    LET os1 == [os EXCEPT ![p].children = Append(@, c)]
    IN  [os1 EXCEPT ![c].parent = p, ![c].localPos = localPos, ![c].localAngle = localAngle]

\* A removeChild that clears the parent but leaves the child in the array
removeChildKeepsListed(os, p, c) == [os EXCEPT ![c].parent = None]

\* lines 877-882: p.removeChild(c)
removeChild(os, p, c) ==
    LET os1 == [os EXCEPT ![p].children = splice(@, c)]
    IN  [os1 EXCEPT ![c].parent = None]

\* lines 816-826: i.destroy(); d.objs are the objects' fields and d.flips the
\* objects whose destroyed flag this call has set, in order.  DestroyChildren is
\* the loop of lines 824-825 from the n-th entry of the children array on.
RECURSIVE destroy(_, _), DestroyChildren(_, _, _)

\* A destroy() that detaches from the parent before it looks at the destroyed flag
destroyDetachesFirst(d, i) ==
    LET os0 == IF d.objs[i].parent # None
               THEN removeChild(d.objs, d.objs[i].parent, i) ELSE d.objs
    IN  IF d.objs[i].destroyed THEN [d EXCEPT !.objs = os0]
        ELSE Then([objs |-> [os0 EXCEPT ![i].destroyed = TRUE], flips |-> Append(d.flips, i)],
                  LAMBDA d1 : DestroyChildren(d1, i, 1))

\* A children loop that stops after the first child
DestroyFirstChild(d, i, n) ==
    IF n > Len(d.objs[i].children) \/ n > 1 THEN d
    ELSE LET child == d.objs[i].children[n]
         IN  Then(destroy([d EXCEPT !.objs[child].parent = None], child),
                  LAMBDA d1 : DestroyChildren(d1, i, n + 1))

destroy(d, i) ==
    LET os1 == [d.objs EXCEPT ![i].destroyed = TRUE]
        os2 == IF os1[i].parent # None THEN removeChild(os1, os1[i].parent, i) ELSE os1
    IN  IF d.objs[i].destroyed THEN d
        ELSE Then([objs |-> os2, flips |-> Append(d.flips, i)],
                  LAMBDA d1 : DestroyChildren(d1, i, 1))

DestroyChildren(d, i, n) ==
    IF n > Len(d.objs[i].children) THEN d
    ELSE LET child == d.objs[i].children[n]
         IN  Then(destroy([d EXCEPT !.objs[child].parent = None], child),
                  LAMBDA d1 : DestroyChildren(d1, i, n + 1))

(***************************************************************************)
(* Construction and scenes                                                 *)
(***************************************************************************)
\* lines 584-633: new EngineObject(pos, size); def holds the engine settings
\* objectDefaultMass, objectDefaultDamping, ... the constructor reads
EngineObject(pos, size, def) ==
    [pos |-> pos, size |-> size, angle |-> Zero,
     mass |-> def.mass, damping |-> def.damping, angleDamping |-> def.angleDamping,
     elasticity |-> def.elasticity, friction |-> def.friction,
     gravityScale |-> One, velocity |-> ZeroVec, angleVelocity |-> Zero,
     children |-> <<>>, collideTiles |-> TRUE,
     collideSolidObjects |-> FALSE, isSolid |-> FALSE,
     groundObject |-> None, parent |-> None,
     localPos |-> ZeroVec, localAngle |-> Zero, mirror |-> FALSE,
     destroyed |-> FALSE, collideWith |-> Objects]

\* lines 888-895: o.setCollision(collideSolidObjects, isSolid, collideTiles)
setCollision(o, collideSolidObjects, isSolid, collideTiles) ==
    [o EXCEPT !.collideSolidObjects = collideSolidObjects,
              !.isSolid = isSolid, !.collideTiles = collideTiles]

Settings(mass, elasticity) ==
    [mass |-> mass, damping |-> One, angleDamping |-> One,
     elasticity |-> elasticity, friction |-> Rat(1, 2)]

\* a solid object with the given velocity
Solid(pos, size, velocity, mass, elasticity) ==
    [setCollision(EngineObject(pos, size, Settings(mass, elasticity)), TRUE, TRUE, TRUE)
        EXCEPT !.velocity = velocity]

UnitSize == Vec(One, One)

NoLog == [op |-> "init", obj |-> None, arg |-> None, oldPos |-> ZeroVec, oldGround |-> None,
          events |-> <<>>, hooks |-> <<>>, tests |-> <<>>, seen |-> <<>>, flips |-> <<>>]

MaxCalls == 3

Gravities == {Zero, Rat(-1, 5)}

\* Pair scenes: object 3 is a fixed slab at the origin, object 2 sits at its rest
\* height on the slab and object 1 approaches object 2 from the direction d
Directions == {Vec(Zero, One), Vec(One, Zero), Vec(One, One)}

Rest == Vec(Zero, Rat(1001, 1000))

Slab == Solid(ZeroVec, Vec(ToRat(4), One), ZeroVec, Zero, Zero)

PairScene(d, m1, m2, e1, e2, v2) ==
    (1 :> Solid(add(Rest, scale(d, Rat(11, 10))), UnitSize, scale(d, Rat(-1, 2)), m1, e1))
    @@ (2 :> Solid(Rest, UnitSize, v2, m2, e2))
    @@ (3 :> Slab)

PairScenes ==
    {PairScene(d, m1, m2, e1, e2, scale(d, v2)) :
        d \in Directions, m1 \in {One, ToRat(3)}, m2 \in {Zero, One},
        e1 \in {Zero, One}, e2 \in {Zero, One}, v2 \in {Zero, Rat(1, 4)}}

\* Tile scenes: object 1 starts next to the blocked cells with velocity v, object 2
\* hangs above it and object 3 is attached to object 1, which is mirrored and
\* turned by a quarter
TileLayouts ==
    {{<<2, 2>>}, {<<2, 1>>, <<2, 2>>}, {<<1, 2>>, <<2, 2>>},
     {<<2, 1>>, <<1, 2>>, <<2, 2>>}, {<<0, 0>>, <<1, 0>>, <<2, 0>>}}

TileStart == Vec(Rat(7, 5), Rat(7, 5))

TileVelocities ==
    {Vec(Rat(1, 5), Rat(1, 5)), Vec(Rat(1, 5), Zero), Vec(Zero, Rat(1, 5)),
     Vec(Rat(1, 5), Rat(-1, 5)), Vec(Zero, Rat(-3, 5))}

TileScene(v, e, damping, p2) ==
    LET os == (1 :> [Solid(TileStart, UnitSize, v, One, e)
                        EXCEPT !.damping = damping, !.angle = One, !.mirror = TRUE])
              @@ (2 :> Solid(p2, UnitSize, ZeroVec, One, Zero))
              @@ (3 :> Solid(ZeroVec, UnitSize, ZeroVec, One, Zero))
    IN  addChild(os, 1, 3, Vec(One, Zero), One)

\* object 2 hangs right above object 1, or out of its reach
Above == {Vec(Rat(7, 5), Rat(49, 20)), Vec(Rat(7, 5), ToRat(5))}

TileScenes ==
    {TileScene(v, e, damping, p2) :
        v \in TileVelocities, e \in {Zero, Rat(1, 2)}, damping \in {One, Rat(1, 2)},
        p2 \in Above}

\* Head-on scene: two unit objects at (0,0) and (0,1.5) approach each other
\* vertically at speed 1; object 3 is out of reach
HeadOnScene(m, e) ==
    (1 :> Solid(ZeroVec, UnitSize, Vec(Zero, One), m, e))
    @@ (2 :> Solid(Vec(Zero, Rat(3, 2)), UnitSize, Vec(Zero, Neg(One)), m, e))
    @@ (3 :> Solid(Vec(ToRat(9), Zero), UnitSize, ZeroVec, Zero, Zero))

HeadOnScenes == {HeadOnScene(m, e) : m \in {One, ToRat(3)}, e \in {Zero, Rat(1, 2), One}}

\* Overlap scene: objects 1 and 2 start at the same place above the slab
OverlapScene(m2) ==
    (1 :> Solid(Vec(Zero, ToRat(3)), UnitSize, ZeroVec, One, Zero))
    @@ (2 :> Solid(Vec(Zero, ToRat(3)), UnitSize, ZeroVec, m2, Zero))
    @@ (3 :> Slab)

OverlapScenes == {OverlapScene(m2) : m2 \in {Zero, One}}

Init ==
    /\ \/ objs \in PairScenes /\ tileCollision = {} /\ gravity \in Gravities
          /\ scene = "pair"
       \/ objs \in TileScenes /\ tileCollision \in TileLayouts /\ gravity \in Gravities
          /\ scene = "tile"
       \/ objs \in HeadOnScenes /\ tileCollision = {} /\ gravity = Zero
          /\ scene = "headOn"
       \/ objs \in OverlapScenes /\ tileCollision = {} /\ gravity \in Gravities
          /\ scene = "overlap"
    /\ last = NoLog
    /\ calls = 0
    /\ pass = 0
    /\ vectors = <<>>

(***************************************************************************)
(* Actions: the calls the engine and the game make on the objects          *)
(***************************************************************************)
\* the objects whose push-away from i may draw a random vector: those whose
\* centre is nearer than .01 to i's
Near(i, k) ==
    k # i /\ Less(lengthSquared(subtract(objs[i].pos, objs[k].pos)), Rat(1, 10000))

RandomVectors(i) ==
    IF \A k \in Objects : ~Near(i, k)
    THEN {[k \in Objects |-> setAngle(0, pushAwayAccel)]}
    ELSE {rnd \in [Objects -> randVector(pushAwayAccel)] :
            \A k \in Objects : ~Near(i, k) => rnd[k] = setAngle(0, pushAwayAccel)}

Log(op, i, arg, w, flips) ==
    [op |-> op, obj |-> i, arg |-> arg, oldPos |-> objs[i].pos,
     oldGround |-> objs[i].groundObject,
     events |-> w.events, hooks |-> w.hooks, tests |-> w.tests, seen |-> w.seen,
     flips |-> flips]

NoWork == [events |-> <<>>, hooks |-> <<>>, tests |-> <<>>, seen |-> <<>>]

\* lines 658-659: ASSERT(this.angleDamping >= 0 && this.angleDamping <= 1) and
\* ASSERT(this.damping >= 0 && this.damping <= 1)
SanityChecks(o) ==
    /\ ~Less(o.angleDamping, Zero) /\ ~Less(One, o.angleDamping)
    /\ ~Less(o.damping, Zero) /\ ~Less(One, o.damping)

\* one call of objs[i].update()
UpdateCall(i) ==
    /\ objs[i].parent = None => SanityChecks(objs[i])
    /\ \E rnd \in RandomVectors(i) :
        \E w \in {update(objs, i, rnd)} :
            /\ objs' = w.objs
            /\ last' = Log("update", i, None, w, <<>>)

\* A pass that goes through the registry backwards
NextInPassReversed == Cardinality(Objects) - (pass % Cardinality(Objects))

\* the object the engine's pass updates next
NextInPass == (pass % Cardinality(Objects)) + 1

Update(i) ==
    /\ calls < MaxCalls
    /\ UpdateCall(i)
    /\ calls' = calls + 1
    /\ pass' = IF pass >= 0 /\ i = NextInPass THEN pass + 1 ELSE 0 - 1
    /\ UNCHANGED <<gravity, tileCollision, scene, vectors>>

Destroy(i) ==
    /\ calls < MaxCalls
    /\ \E d \in {destroy([objs |-> objs, flips |-> <<>>], i)} :
        /\ objs' = d.objs
        /\ last' = Log("destroy", i, None, NoWork, d.flips)
    /\ calls' = calls + 1
    /\ UNCHANGED <<gravity, tileCollision, pass, scene, vectors>>

LocalPositions == {Vec(One, Zero)}

LocalAngles == {One}

\* line 868: ASSERT(!child.parent && !this.children.includes(child))
AddChild(p, c) ==
    /\ objs[c].parent = None /\ ~includes(objs[p].children, c)
    /\ \E localPos \in LocalPositions, localAngle \in LocalAngles :
        objs' = addChild(objs, p, c, localPos, localAngle)
    /\ last' = Log("addChild", p, c, NoWork, <<>>)
    /\ UNCHANGED <<gravity, tileCollision, calls, pass, scene, vectors>>

\* line 879: ASSERT(child.parent == this && this.children.includes(child))
RemoveChild(p, c) ==
    /\ objs[c].parent = p /\ includes(objs[p].children, c)
    /\ objs' = removeChild(objs, p, c)
    /\ last' = Log("removeChild", p, c, NoWork, <<>>)
    /\ UNCHANGED <<gravity, tileCollision, calls, pass, scene, vectors>>

\* destroy() where the hierarchy calls are not counted
DestroyTree(i) ==
    /\ \E d \in {destroy([objs |-> objs, flips |-> <<>>], i)} :
        /\ objs' = d.objs
        /\ last' = Log("destroy", i, None, NoWork, d.flips)
    /\ UNCHANGED <<gravity, tileCollision, calls, pass, scene, vectors>>

\* The physics specification: update() calls on the objects in any order
Next == \E i \in Objects : Update(i)

Spec == Init /\ [][Next]_vars

\* The lifecycle specification: update() and destroy() calls in any order
InitLife ==
    /\ \/ objs \in {PairScene(d, One, One, Zero, Zero, ZeroVec) : d \in Directions}
          /\ tileCollision = {}
          /\ scene = "pair"
       \/ objs \in {TileScene(v, Zero, One, p2) : v \in TileVelocities, p2 \in Above}
          /\ tileCollision \in TileLayouts
          /\ scene = "tile"
    /\ gravity \in Gravities
    /\ last = NoLog
    /\ calls = 0
    /\ pass = 0
    /\ vectors = <<>>

NextLife ==
    \/ \E i \in Objects : Update(i)
    \/ \E i \in Objects : Destroy(i)

SpecLife == InitLife /\ [][NextLife]_vars

\* The hierarchy specification: addChild, removeChild and destroy calls in any
\* order on three objects at rest
InitTree ==
    /\ objs = [k \in Objects |-> Solid(Vec(ToRat(3 * k), Zero), UnitSize, ZeroVec, One, Zero)]
    /\ tileCollision = {}
    /\ gravity = Zero
    /\ scene = "tree"
    /\ last = NoLog
    /\ calls = 0
    /\ pass = 0
    /\ vectors = <<>>

NextTree ==
    \/ \E p \in Objects, c \in Objects : AddChild(p, c)
    \/ \E p \in Objects, c \in Objects : RemoveChild(p, c)
    \/ \E i \in Objects : DestroyTree(i)

SpecTree == InitTree /\ [][NextTree]_vars

\* The falling-body specification: the engine's passes, update() on each object
\* in registration order, over and over.  Object 1 is a fixed slab of size (4,1)
\* at the origin with gravity scale gs (the constructor sets 1), object 2 a unit
\* object that starts at height h above it.
CallCap == 40

FallScene(h, m, e, gs) ==
    (1 :> [Slab EXCEPT !.gravityScale = gs])
    @@ (2 :> Solid(Vec(Zero, h), UnitSize, ZeroVec, m, e))
    @@ (3 :> Solid(Vec(ToRat(9), Zero), UnitSize, ZeroVec, Zero, Zero))

FallHeights == {ToRat(2), ToRat(3), ToRat(4), ToRat(5)}

InitFall ==
    /\ objs \in {FallScene(h, m, e, gs) :
                    h \in FallHeights, m \in {One, ToRat(3)}, e \in {Zero, One},
                    gs \in {Zero, One}}
    /\ tileCollision = {}
    /\ gravity = Rat(-1, 5)
    /\ scene = "fall"
    /\ last = NoLog
    /\ calls = 0
    /\ pass = 0
    /\ vectors = <<>>

PassStep(i) ==
    /\ calls < CallCap
    /\ i = NextInPass
    /\ UpdateCall(i)
    /\ calls' = calls + 1
    /\ pass' = (pass + 1) % Cardinality(Objects)
    /\ UNCHANGED <<gravity, tileCollision, scene, vectors>>

NextFall == \E i \in Objects : PassStep(i)

SpecFall == InitFall /\ [][NextFall]_vars

\* The pass specification: the engine's passes over three bodies, of which p
\* moves and turns and has the child c, for every registration order of p and c;
\* the third body is free or attached to c
PassScene(p, c, mirror, chain) ==
    LET os == [k \in Objects |->
                [Solid(Vec(ToRat(3 * k), Zero), UnitSize, ZeroVec, One, Zero)
                    EXCEPT !.velocity = IF k = p THEN Vec(Rat(1, 4), Zero) ELSE ZeroVec,
                           !.angleVelocity = IF k = p THEN One ELSE Zero,
                           !.mirror = mirror]]
        g == CHOOSE k \in Objects : k # p /\ k # c
        os1 == addChild(os, p, c, Vec(One, Zero), One)
    IN  IF chain THEN addChild(os1, c, g, Vec(Zero, One), Zero) ELSE os1

InitPass ==
    /\ objs \in {PassScene(pc[1], pc[2], mirror, chain) :
                    pc \in {qc \in Objects \X Objects : qc[1] # qc[2]},
                    mirror \in BOOLEAN, chain \in BOOLEAN}
    /\ tileCollision = {}
    /\ gravity = Zero
    /\ scene = "pass"
    /\ last = NoLog
    /\ calls = 0
    /\ pass = 0
    /\ vectors = <<>>

SpecPass == InitPass /\ [][NextFall]_vars

\* Squeeze scenes: object 1 stands between objects 2 and 3, touching both, and
\* moves toward object 2; c1 and c3 are the objects that object 1's and object
\* 3's collideWithObject agree to
SqueezeScene(m2, m3, c1, c3) ==
    (1 :> [Solid(ZeroVec, UnitSize, Vec(Rat(1, 2), Zero), One, Zero) EXCEPT !.collideWith = c1])
    @@ (2 :> Solid(Vec(One, Zero), UnitSize, ZeroVec, m2, Zero))
    @@ (3 :> [Solid(Vec(Neg(One), Zero), UnitSize, ZeroVec, m3, Zero) EXCEPT !.collideWith = c3])

SqueezeScenes ==
    {SqueezeScene(m2, m3, c1, c3) :
        m2 \in {Zero, One}, m3 \in {Zero, One}, c1 \in {Objects, {3}}, c3 \in {Objects, {2}}}

\* Two-block scenes: object 1 falls onto objects 2 and 3, which stand side by side
TwoBlockScene(m2, c1) ==
    (1 :> [Solid(Vec(Zero, Rat(6, 5)), UnitSize, Vec(Zero, Rat(-1, 2)), One, Zero)
              EXCEPT !.collideWith = c1])
    @@ (2 :> Solid(Vec(Rat(-3, 5), Zero), UnitSize, ZeroVec, m2, Zero))
    @@ (3 :> Solid(Vec(Rat(3, 5), Zero), UnitSize, ZeroVec, Zero, Zero))

TwoBlockScenes == {TwoBlockScene(m2, c1) : m2 \in {Zero, One}, c1 \in {Objects, {3}}}

\* Approach scenes: object 1 comes at object 2, a unit object at the origin, from
\* the side over a low step, diagonally from below, from below and diagonally
\* from above; object 3 is out of reach
Approaches ==
    {<<Vec(Rat(-11, 10), Rat(19, 20)), Vec(Rat(1, 2), Zero)>>,
     <<Vec(Rat(-11, 10), Rat(-11, 10)), Vec(Rat(1, 2), Rat(1, 2))>>,
     <<Vec(Zero, Rat(-11, 10)), Vec(Zero, Rat(1, 2))>>,
     <<Vec(Rat(-11, 10), Rat(11, 10)), Vec(Rat(1, 2), Rat(-1, 2))>>}

ApproachScene(a, m2) ==
    (1 :> Solid(a[1], UnitSize, a[2], One, Zero))
    @@ (2 :> Solid(ZeroVec, UnitSize, ZeroVec, m2, Zero))
    @@ (3 :> Solid(Vec(ToRat(9), Zero), UnitSize, ZeroVec, Zero, Zero))

ApproachScenes == {ApproachScene(a, m2) : a \in Approaches, m2 \in {Zero, One}}

\* The contact specification: update() calls in any order on a body that touches
\* two others or comes at another
InitContact ==
    /\ \/ objs \in SqueezeScenes /\ scene = "squeeze"
       \/ objs \in TwoBlockScenes /\ scene = "twoBlock"
       \/ objs \in ApproachScenes /\ scene = "approach"
    /\ tileCollision = {}
    /\ gravity \in Gravities
    /\ last = NoLog
    /\ calls = 0
    /\ pass = 0
    /\ vectors = <<>>

SpecContact == InitContact /\ [][Next]_vars

\* The vector specification: Vector2 method calls and assignments to a
\* coordinate, in any order, on the instances made so far
MaxVectors == 3

StartVectors == {Vec(ToRat(3), ToRat(4)), ZeroVec, Vec(Rat(-3, 2), ToRat(2))}

Lengths == {One, ToRat(6)}

InitVector ==
    /\ objs = [k \in Objects |-> EngineObject(ZeroVec, UnitSize, Settings(One, Zero))]
    /\ tileCollision = {}
    /\ gravity = Zero
    /\ scene = "vector"
    /\ last = NoLog
    /\ calls = 0
    /\ pass = 0
    /\ vectors \in {<<u, Vec(ToRat(3), ToRat(4))>> : u \in StartVectors}

Instances == DOMAIN vectors

\* the call r.op(a) gave res: the heap after it and the instance returned
Returns(op, r, a, res) ==
    /\ Len(vectors) < MaxVectors
    /\ vectors' = res.heap
    /\ last' = [NoLog EXCEPT !.op = op, !.obj = r, !.arg = a] @@ [ret |-> res.ret]
    /\ UNCHANGED <<objs, gravity, tileCollision, calls, pass, scene>>

Copy == \E r \in Instances : Returns("copy", r, None, copy(vectors, r))

Add == \E r, a \in Instances : Returns("add", r, a, Vector2add(vectors, r, a))

Subtract == \E r, a \in Instances : Returns("subtract", r, a, Vector2subtract(vectors, r, a))

Multiply == \E r, a \in Instances : Returns("multiply", r, a, Vector2multiply(vectors, r, a))

\* the divisor's coordinates are not 0
Divide ==
    \E r, a \in Instances :
        /\ Truthy(vectors[a].x) /\ Truthy(vectors[a].y)
        /\ Returns("divide", r, a, divide(vectors, r, a))

Scale == \E r \in Instances : Returns("scale", r, None, Vector2scale(vectors, r, ToRat(2)))

\* the calls of normalize and clampLength are those on instances whose length
\* is rational
Normalize ==
    \E r \in Instances, len \in Lengths :
        /\ IsSquare(lengthSquared(vectors[r]))
        /\ Returns("normalize", r, None, normalize(vectors, r, len))

ClampLength ==
    \E r \in Instances, len \in Lengths :
        /\ IsSquare(lengthSquared(vectors[r]))
        /\ Returns("clampLength", r, None, clampLength(vectors, r, len))

SetAngle == \E r \in Instances : Returns("setAngle", r, None, Vector2setAngle(vectors, r, 1, ToRat(2)))

Rotate == \E r \in Instances : Returns("rotate", r, None, Vector2rotate(vectors, r, 1))

Invert == \E r \in Instances : Returns("invert", r, None, invert(vectors, r))

Floor == \E r \in Instances : Returns("floor", r, None, floor(vectors, r))

Lerp == \E r, a \in Instances : Returns("lerp", r, a, Vector2lerp(vectors, r, a, Rat(1, 2)))

\* v.x = 0 on the instance r (as update() assigns this.velocity.x)
AssignX ==
    \E r \in Instances :
        Returns("assignX", r, None, [heap |-> [vectors EXCEPT ![r].x = Zero], ret |-> r])

NextVector ==
    \/ Copy \/ Add \/ Subtract \/ Multiply \/ Divide \/ Scale \/ Normalize
    \/ ClampLength \/ SetAngle \/ Rotate \/ Invert \/ Floor \/ Lerp \/ AssignX

SpecVector == InitVector /\ [][NextVector]_vars

(***************************************************************************)
(* Properties                                                              *)
(***************************************************************************)
\* the collision responses of the most recent update(), in order
Events == {last.events[n] : n \in DOMAIN last.events}

\* the responses to a new overlap with another object
Resolutions == {e \in Events : e.me # e.o /\ e.kind \in {"bounce", "blend", "move"}}

\* the responses of the tile resolver
TileEvents == {e \in Events : e.me = e.o}

Comp(v, axis) == IF axis = "x" THEN v.x ELSE v.y

Movable(k) == Less(Zero, objs[k].mass)

\* the other object was grounded and this one was moving down: line 717
Landing(e) == e.axis = "y" /\ e.oGround # None /\ e.wasMovingDown

\* C1 (amended): an update() of an object with mass > 0, collideTiles set and no
\* parent that starts at a position the tile test does not block ends at a
\* position the tile test does not block.
TileCollisionKeepsClear ==
    (/\ last.op = "update"
     /\ Movable(last.obj)
     /\ objs[last.obj].collideTiles
     /\ objs[last.obj].parent = None
     /\ ~tileCollisionTest(last.oldPos, objs[last.obj].size))
    => ~tileCollisionTest(objs[last.obj].pos, objs[last.obj].size)

\* C1 as stated: the same for every object with mass > 0 and collideTiles set,
\* attached to a parent or not.
EveryUpdateKeepsClear ==
    (/\ last.op = "update"
     /\ Movable(last.obj)
     /\ objs[last.obj].collideTiles
     /\ ~tileCollisionTest(last.oldPos, objs[last.obj].size))
    => ~tileCollisionTest(objs[last.obj].pos, objs[last.obj].size)

\* C1 witness: an update() in which an object response moved the object and the
\* tile resolver then found its position blocked and restored it.
TileResolvedAfterObject ==
    /\ last.op = "update"
    /\ objs[last.obj].parent = None
    /\ \E e \in TileEvents : TRUE
    /\ \E e \in Resolutions : TRUE
    /\ ~tileCollisionTest(last.oldPos, objs[last.obj].size)

\* C2: an update() of one object changes neither the position nor the velocity
\* of any other object of mass 0.
FixedUnaffected ==
    [][last'.op = "update" =>
        \A o \in Objects :
            (o # last'.obj /\ ~Truthy(objs[o].mass)) =>
                /\ objs'[o].pos = objs[o].pos
                /\ objs'[o].velocity = objs[o].velocity]_vars

\* C2 witness: an update() that pushed away from a fixed object it already
\* overlapped.
PushedFromFixed ==
    /\ last.op = "update"
    /\ \E e \in Events : e.kind = "push" /\ ~Truthy(objs[e.o].mass)

\* the objects listed in the children arrays of the objects in S
Kids(os, S) == {c \in Objects : \E q \in S : includes(os[q].children, c)}

RECURSIVE Closure(_, _)
Closure(os, S) == IF Kids(os, S) \subseteq S THEN S ELSE Closure(os, S \cup Kids(os, S))

\* children, grandchildren, ...
Descendants(os, p) == Closure(os, Kids(os, {p}))

Count(seq, x) == Cardinality({n \in DOMAIN seq : seq[n] = x})

\* C3 (amended): destroy() on an object p that is not destroyed and has no
\* destroyed descendant leaves every descendant destroyed, with its parent
\* reference cleared, and sets each descendant's flag exactly once.
DestroyReachesDescendants ==
    [][(/\ last'.op = "destroy"
        /\ ~objs[last'.obj].destroyed
        /\ \A g \in Descendants(objs, last'.obj) : ~objs[g].destroyed) =>
        \A g \in Descendants(objs, last'.obj) :
            /\ objs'[g].destroyed
            /\ objs'[g].parent = None
            /\ Count(last'.flips, g) = 1]_vars

\* C3 as stated: the same whatever the descendants' flags were before the call.
DestroyReachesAll ==
    [][(/\ last'.op = "destroy"
        /\ ~objs[last'.obj].destroyed) =>
        \A g \in Descendants(objs, last'.obj) :
            /\ objs'[g].destroyed
            /\ objs'[g].parent = None
            /\ Count(last'.flips, g) = 1]_vars

\* C3 witness: a destroy() that set the flag of the object, a child and a
\* grandchild.
DestroyedThreeDeep ==
    /\ last.op = "destroy"
    /\ Len(last.flips) = 3
    /\ \A g \in Objects : objs[g].destroyed /\ objs[g].parent = None

\* C4: destroy() on an object whose destroyed flag is set changes no field of
\* any object.
DestroyIdempotent ==
    [][(last'.op = "destroy" /\ objs[last'.obj].destroyed) =>
        (objs' = objs /\ last'.flips = <<>>)]_vars

\* C4 witness: a destroy() that set no flag, on an object that has a parent and
\* a child.
DestroyedAgain ==
    /\ last.op = "destroy"
    /\ last.flips = <<>>
    /\ objs[last.obj].parent # None
    /\ objs[last.obj].children # <<>>

\* (m1*v1 + m2*v2)/(m1 + m2) on the axis of e, before the response
Common(e) ==
    Over(Plus(Times(objs[e.me].mass, Comp(e.vMe, e.axis)),
              Times(objs[e.o].mass, Comp(e.vO, e.axis))),
         Plus(objs[e.me].mass, objs[e.o].mass))

InelasticPair(e) ==
    /\ Movable(e.me) /\ Movable(e.o)
    /\ objs[e.me].elasticity = Zero /\ objs[e.o].elasticity = Zero

\* C5 (amended): when update() resolves a new overlap of two movable objects of
\* elasticity 0, both get the common velocity on the resolved axis, except on
\* the y axis when the other object is grounded and this one was moving down:
\* then this object's vertical velocity becomes 0 and the other's is unchanged.
InelasticCommonVelocity ==
    last.op = "update" =>
        \A e \in Resolutions :
            InelasticPair(e) =>
                IF Landing(e)
                THEN e.vMe1.y = Zero /\ e.vO1 = e.vO
                ELSE /\ Comp(e.vMe1, e.axis) = Common(e)
                     /\ Comp(e.vO1, e.axis) = Common(e)

\* C5 as stated: the common velocity on either axis, always.
InelasticOnBothAxes ==
    last.op = "update" =>
        \A e \in Resolutions :
            InelasticPair(e) =>
                /\ Comp(e.vMe1, e.axis) = Common(e)
                /\ Comp(e.vO1, e.axis) = Common(e)

\* C5 witness: one update() resolved a new overlap of two movable objects of
\* elasticity 0 and different masses on the y axis and on the x axis, and the
\* objects' velocities differed before.
InelasticResolvedTwice ==
    /\ last.op = "update"
    /\ \E e, f \in Resolutions :
        /\ e.axis = "y" /\ f.axis = "x" /\ e.o = f.o
        /\ InelasticPair(e) /\ ~Landing(e)
        /\ objs[e.me].mass # objs[e.o].mass
        /\ e.vMe.y # e.vO.y /\ f.vMe.x # f.vO.x

ElasticPair(e) ==
    /\ Movable(e.me) /\ objs[e.me].mass = objs[e.o].mass
    /\ objs[e.me].elasticity = One /\ objs[e.o].elasticity = One

\* the head-on scene of two unit masses of elasticity 1, after one pass
HeadOnDone ==
    /\ scene = "headOn" /\ pass = Cardinality(Objects)
    /\ objs[1].mass = One /\ objs[1].elasticity = One

\* C6 (amended): when update() resolves a new overlap of two objects of equal
\* positive mass and elasticity 1, they exchange their velocities on the
\* resolved axis, except on the y axis when the other object is grounded and
\* this one was moving down: then this object's vertical velocity changes sign
\* and the other's is unchanged.  The head-on pair ends its first pass with
\* vertical velocities -1 and 1.
ElasticExchange ==
    /\ last.op = "update" =>
        \A e \in Resolutions :
            ElasticPair(e) =>
                IF Landing(e)
                THEN e.vMe1.y = Neg(e.vMe.y) /\ e.vO1 = e.vO
                ELSE /\ Comp(e.vMe1, e.axis) = Comp(e.vO, e.axis)
                     /\ Comp(e.vO1, e.axis) = Comp(e.vMe, e.axis)
    /\ HeadOnDone => objs[1].velocity.y = Neg(One) /\ objs[2].velocity.y = One

\* C6 as stated: the exchange on either axis, always.
ElasticExchangeAlways ==
    /\ last.op = "update" =>
        \A e \in Resolutions :
            ElasticPair(e) =>
                /\ Comp(e.vMe1, e.axis) = Comp(e.vO, e.axis)
                /\ Comp(e.vO1, e.axis) = Comp(e.vMe, e.axis)
    /\ HeadOnDone => objs[1].velocity.y = Neg(One) /\ objs[2].velocity.y = One

\* C6 witness: the head-on pair after its first pass, in which the two objects
\* met and exchanged velocities.
HeadOnExchanged ==
    /\ HeadOnDone
    /\ objs[1].velocity.y = Neg(One)
    /\ objs[1].pos.y = Rat(499, 1000)
    /\ objs[2].pos.y = Rat(5, 2)

\* the tile resolver's case of e: the position reached is blocked, the old one is
\* not, and neither substituted position is
AtCorner(e) ==
    LET size == objs[e.me].size
    IN  /\ tileCollisionTest(e.posMe, size)
        /\ ~tileCollisionTest(last.oldPos, size)
        /\ ~tileCollisionTest(Vec(last.oldPos.x, e.posMe.y), size)
        /\ ~tileCollisionTest(Vec(e.posMe.x, last.oldPos.y), size)

\* both substituted positions are blocked
AtInnerCorner(e) ==
    LET size == objs[e.me].size
    IN  /\ tileCollisionTest(e.posMe, size)
        /\ ~tileCollisionTest(last.oldPos, size)
        /\ tileCollisionTest(Vec(last.oldPos.x, e.posMe.y), size)
        /\ tileCollisionTest(Vec(e.posMe.x, last.oldPos.y), size)

\* the vertical velocity lines 787-794 leave: the bounce, or the velocity that
\* settles the object on the tile below
TileBounceY(e) ==
    LET me == objs[e.me]
        bottom == Minus(last.oldPos.y, Over(me.size.y, ToRat(2)))
        o == Minus(Trunc(bottom), bottom)
        bounce == Times(e.vMe.y, Neg(me.elasticity))
    IN  IF Less(o, Zero)
           /\ Less(Plus(Times(me.damping, bounce), Times(gravity, me.gravityScale)), o)
        THEN Over(Minus(o, Times(gravity, me.gravityScale)), me.damping)
        ELSE bounce

\* C7 (amended): at the outer corner of a blocked tile the resolver bounces on
\* the y axis only: velocity.y is bounced and pos.y restored, velocity.x and the
\* new pos.x are kept.  It bounces on both axes when both substituted positions
\* are blocked.
CornerBouncesOnY ==
    last.op = "update" =>
        \A e \in TileEvents :
            /\ AtCorner(e) =>
                /\ e.vMe1.x = e.vMe.x
                /\ e.vMe1.y = TileBounceY(e)
                /\ e.posMe1 = Vec(e.posMe.x, last.oldPos.y)
            /\ AtInnerCorner(e) =>
                /\ e.vMe1.x = Times(e.vMe.x, Neg(objs[e.me].elasticity))
                /\ e.vMe1.y = TileBounceY(e)
                /\ e.posMe1 = last.oldPos

\* C7 as stated: at the outer corner both velocity components are multiplied by
\* -elasticity.
CornerBouncesOnBoth ==
    last.op = "update" =>
        \A e \in TileEvents :
            AtCorner(e) =>
                /\ e.vMe1.x = Times(e.vMe.x, Neg(objs[e.me].elasticity))
                /\ e.vMe1.y = Times(e.vMe.y, Neg(objs[e.me].elasticity))

\* C7 witness: an object of elasticity 1/2 moving up and to the right reached
\* the outer corner of a blocked tile.
CornerReached ==
    /\ last.op = "update"
    /\ \E e \in TileEvents :
        /\ AtCorner(e)
        /\ Less(Zero, e.vMe.x) /\ Less(Zero, e.vMe.y)
        /\ objs[e.me].elasticity = Rat(1, 2)

\* the falling object of the falling-body scenes rests on the slab
AtRest ==
    /\ objs[2].pos.y = Rat(1001, 1000)
    /\ objs[2].groundObject = 1

\* the number of update() calls in the passes by which an object dropped from
\* the greatest height has landed
RestBy == 7 * Cardinality(Objects)

\* C8 as stated, for a falling object of elasticity 0: after a bounded number of
\* passes it rests on the slab at y = 1.001 with groundObject set to the slab,
\* and stays so.
FallingBodyComesToRest ==
    (/\ scene = "fall"
     /\ objs[1].gravityScale = One
     /\ objs[2].elasticity = Zero
     /\ calls >= RestBy) => AtRest

\* the position and angle lines 641-642 give a follower
FollowsAt(me, parent) ==
    [pos |-> add(rotate(multiply(me.localPos, Vec(getMirrorSign(parent), One)),
                        Neg(parent.angle)), parent.pos),
     angle |-> Plus(Times(getMirrorSign(parent), me.localAngle), parent.angle)]

\* C9: update() of an object with a parent sets its pos and angle from the
\* parent and its local transform, changes nothing else of any object, and
\* runs no collision hook, tile test or collision response.
ParentedOnlyFollows ==
    [][(last'.op = "update" /\ objs[last'.obj].parent # None) =>
        LET i == last'.obj
            at == FollowsAt(objs[i], objs[objs[i].parent])
        IN  /\ objs' = [objs EXCEPT ![i].pos = at.pos, ![i].angle = at.angle]
            /\ last'.hooks = <<>>
            /\ last'.tests = <<>>
            /\ last'.events = <<>>]_vars

\* C9 witness: an update() moved and turned an object that follows a mirrored,
\* turned parent, to a place where it overlaps another solid object.
FollowerMoved ==
    /\ last.op = "update"
    /\ objs[last.obj].parent # None
    /\ objs[objs[last.obj].parent].mirror
    /\ objs[last.obj].pos # last.oldPos
    /\ \E k \in Objects \ {last.obj} :
        isOverlapping(objs[last.obj].pos, objs[last.obj].size, objs[k].pos, objs[k].size)

\* C10 (amended): an update() of another object changes no field of a
\* destroyed object and runs no collision hook with it.
DestroyedLeftAlone ==
    [][last'.op = "update" =>
        \A k \in Objects :
            (objs[k].destroyed /\ k # last'.obj) =>
                /\ objs'[k] = objs[k]
                /\ \A n \in DOMAIN last'.hooks :
                    last'.hooks[n][1] # k /\ last'.hooks[n][2] # k]_vars

\* C10 as stated: update() of a destroyed object changes nothing.
DestroyedTakesNoAction ==
    [][(last'.op = "update" /\ objs[last'.obj].destroyed) =>
        LET i == last'.obj
        IN  /\ objs'[i].pos = objs[i].pos
            /\ objs'[i].velocity = objs[i].velocity
            /\ objs'[i].angle = objs[i].angle
            /\ objs'[i].angleVelocity = objs[i].angleVelocity
            /\ objs'[i].groundObject = objs[i].groundObject
            /\ \A k \in Objects \ {i} : objs'[k] = objs[k]]_vars

\* C10 witness: an update() moved a solid object into a destroyed solid object
\* and no collision hook ran.
PassedThroughDestroyed ==
    /\ last.op = "update"
    /\ last.hooks = <<>>
    /\ objs[last.obj].parent = None
    /\ \E k \in Objects \ {last.obj} :
        /\ objs[k].destroyed /\ objs[k].isSolid /\ objs[k].parent = None
        /\ objs[last.obj].isSolid /\ objs[last.obj].collideSolidObjects
        /\ Movable(last.obj)
        /\ isOverlapping(objs[last.obj].pos, objs[last.obj].size, objs[k].pos, objs[k].size)

\* the Vector2 operations of the vector kernel
VectorOps ==
    {"copy", "add", "subtract", "multiply", "divide", "scale", "normalize",
     "clampLength", "setAngle", "rotate", "invert", "floor", "lerp"}

\* C11 as stated: every Vector2 operation leaves every instance there was
\* (the receiver and the argument among them) unchanged and returns an instance
\* that did not exist before; so an assignment to a coordinate of the instance
\* the previous operation returned leaves that operation's receiver unchanged.
VectorOpsReturnNew ==
    [][/\ last'.op \in VectorOps =>
            /\ \A v \in DOMAIN vectors : vectors'[v] = vectors[v]
            /\ last'.ret \notin DOMAIN vectors
            /\ last'.ret # last'.obj
       /\ (last'.op = "assignX" /\ last.op \in VectorOps /\ last'.obj = last.ret) =>
            vectors'[last.obj] = vectors[last.obj]]_vars

\* the responses of the most recent update() to other objects
ObjectEvents(l) == {l.events[n] : n \in DOMAIN l.events} \ {e \in {l.events[n] : n \in DOMAIN l.events} : e.me = e.o}

HookCalls(l) == {l.hooks[n] : n \in DOMAIN l.hooks}

\* line 681, read positively: one of the two is solid, k is not destroyed, has no
\* parent and is not i
EligiblePair(i, k) ==
    /\ objs[i].isSolid \/ objs[k].isSolid
    /\ ~objs[k].destroyed
    /\ objs[k].parent = None
    /\ k # i

\* both hooks agree
BothAgree(i, k) == k \in objs[i].collideWith /\ i \in objs[k].collideWith

OverlapsAt(pos, i, k) == isOverlapping(pos, objs[i].size, objs[k].pos, objs[k].size)

\* the update() of i runs the loop over engineObjectsCollide
RunsLoop(i) == objs[i].parent = None /\ Truthy(objs[i].mass) /\ objs[i].collideSolidObjects

\* C12 (amended): in an update() of a body i that runs the collision loop, a
\* response to an object k happens only if the pair is eligible, the boxes
\* overlap at the position i has when the loop comes to k (the position after
\* integration as the responses to earlier entries have corrected it) and both
\* hooks agree; the fields of another object change only if there is a response
\* to it; both hooks are called, for exactly the entries of the registry that
\* are eligible and overlap at that position; and a response follows whenever
\* both agree.
ResponseOnlyWhenEligible ==
    [][last'.op = "update" =>
        LET i == last'.obj
            l == last'
            Seen == {l.seen[n] : n \in DOMAIN l.seen}
            Met(c) == EligiblePair(i, c.o) /\ OverlapsAt(c.pos, i, c.o)
        IN  /\ \A e \in ObjectEvents(l) :
                \E c \in Seen : c.o = e.o /\ Met(c) /\ BothAgree(i, c.o)
            /\ \A k \in Objects \ {i} :
                objs'[k] # objs[k] => \E e \in ObjectEvents(l) : e.o = k
            /\ \A c \in Seen :
                Met(c) <=> {<<i, c.o>>, <<c.o, i>>} \subseteq HookCalls(l)
            /\ \A h \in HookCalls(l) : \E c \in Seen : c.o \in {h[1], h[2]} /\ Met(c)
            /\ \A c \in Seen :
                (Met(c) /\ BothAgree(i, c.o)) => \E e \in ObjectEvents(l) : e.o = c.o]_vars

\* C12 as stated: the same with the overlap taken at the position after
\* integration, for every object of the registry.
ResponseOnlyAtIntegratedPos ==
    [][(last'.op = "update" /\ RunsLoop(last'.obj)) =>
        LET i == last'.obj
            l == last'
            integrated == Integrate(objs[i]).pos
            Met(k) == EligiblePair(i, k) /\ OverlapsAt(integrated, i, k)
        IN  /\ \A e \in ObjectEvents(l) : Met(e.o) /\ BothAgree(i, e.o)
            /\ \A k \in Objects \ {i} :
                objs'[k] # objs[k] => \E e \in ObjectEvents(l) : e.o = k
            /\ \A k \in Objects :
                (objs[k].collideSolidObjects /\ Met(k)) =>
                    {<<i, k>>, <<k, i>>} \subseteq HookCalls(l)]_vars

\* C12 witness: an update() in which the response to one object pushed the body
\* into the next, which it did not overlap after integration, and it responded
\* to that one too.
SqueezedIntoNext ==
    /\ last.op = "update"
    /\ \E e, f \in ObjectEvents(last) :
        /\ e.o # f.o
        /\ OverlapsAt(last.seen[1].pos, last.obj, e.o)
        /\ ~OverlapsAt(last.seen[1].pos, last.obj, f.o)
        /\ BothAgree(last.obj, f.o)

Finite(v) == v.x # NotFinite /\ v.y # NotFinite

\* C13: whenever update() computes the inelastic/elastic blend, on either axis,
\* the sum of the two masses is greater than 0, and the velocities it leaves are
\* finite: no division by zero was evaluated.
BlendDenominatorPositive ==
    /\ last.op = "update" =>
        \A e \in Events :
            e.kind = "blend" =>
                /\ Less(Zero, Plus(objs[e.me].mass, objs[e.o].mass))
                /\ Finite(e.vMe1) /\ Finite(e.vO1)
    /\ \A k \in Objects : Finite(objs[k].velocity) /\ Finite(objs[k].pos)

\* C13 witness: an update() blended the velocities of two objects of equal mass
\* on an axis, with a fixed object in the registry.
BlendedEqualMasses ==
    /\ last.op = "update"
    /\ \E e \in Events :
        /\ e.kind = "blend"
        /\ objs[e.me].mass = objs[e.o].mass
        /\ Comp(e.vMe1, e.axis) # Comp(e.vMe, e.axis)
    /\ \E k \in Objects : ~Truthy(objs[k].mass)

\* C14: an update() of a body with collideTiles set that starts where the tile
\* test blocks it ends exactly as the same update() with collideTiles cleared:
\* the tile resolver changes neither pos, velocity nor groundObject, whatever
\* the position reached and the per-axis tests are, and it makes no per-axis
\* test.
EmbeddedLeftAlone ==
    [][(/\ last'.op = "update"
        /\ objs[last'.obj].collideTiles
        /\ tileCollisionTest(objs[last'.obj].pos, objs[last'.obj].size)) =>
        LET i == last'.obj
            off == [objs EXCEPT ![i].collideTiles = FALSE]
        IN  /\ \E rnd \in RandomVectors(i) :
                objs' = [update(off, i, rnd).objs EXCEPT ![i].collideTiles = TRUE]
            /\ Len(last'.tests) <= 2
            /\ \A n \in DOMAIN last'.events : last'.events[n].me # last'.events[n].o]_vars

\* C14 witness: an update() moved a body that started inside blocked tiles to
\* another blocked position, where the vertical substitution is blocked too,
\* and it stayed there.
EmbeddedMoved ==
    /\ last.op = "update"
    /\ Movable(last.obj) /\ objs[last.obj].parent = None /\ objs[last.obj].collideTiles
    /\ tileCollisionTest(last.oldPos, objs[last.obj].size)
    /\ tileCollisionTest(objs[last.obj].pos, objs[last.obj].size)
    /\ tileCollisionTest(Vec(last.oldPos.x, objs[last.obj].pos.y), objs[last.obj].size)
    /\ objs[last.obj].pos # last.oldPos
    /\ last.tests = <<objs[last.obj].pos, last.oldPos>>

\* a landing of the most recent update(): a vertical response while the body
\* was moving down, to a fixed or grounded object (line 717) or to tiles (line
\* 781), with the ground reference it leaves
LandedOnObject(e) ==
    /\ e.me # e.o /\ e.kind = "bounce" /\ e.axis = "y" /\ e.wasMovingDown
    /\ e.oGround # None \/ ~Truthy(objs[e.o].mass)

LandedOnTiles(e) == e.me = e.o /\ e.kind # "tileX" /\ e.wasMovingDown

\* C15: at the end of an update() of a body with no parent and mass > 0,
\* groundObject is set only if that update() detected a landing: it then holds
\* the tile mark if the landing was on tiles and else the object landed on.  A
\* reference the body had before the call does not survive a call without a
\* landing.
GroundOnlyFromLanding ==
    (/\ last.op = "update"
     /\ objs[last.obj].parent = None
     /\ Movable(last.obj)
     /\ objs[last.obj].groundObject # None) =>
        \/ \E e \in Events : LandedOnTiles(e) /\ objs[last.obj].groundObject = FromTiles
        \/ \E e \in Events : LandedOnObject(e) /\ objs[last.obj].groundObject = e.o

\* C15 witness: an update() of a body that had a ground reference detected no
\* landing and left the body without one.
GroundReleased ==
    /\ last.op = "update"
    /\ objs[last.obj].parent = None
    /\ Movable(last.obj)
    /\ last.oldGround # None
    /\ objs[last.obj].groundObject = None
    /\ \A e \in Events : ~LandedOnTiles(e) /\ ~LandedOnObject(e)

\* the update() met exactly one other object k (eligible and overlapping when
\* the loop came to it), both hooks agreed, and the overlap was new
OnlyNewOverlap(k) ==
    /\ k # last.obj
    /\ HookCalls(last) = {<<last.obj, k>>, <<k, last.obj>>}
    /\ BothAgree(last.obj, k)
    /\ ~OverlapsAt(last.oldPos, last.obj, k)

\* half the combined size on the axis, plus 0.001
Clearance(i, k, axis) ==
    Plus(Over(Plus(Comp(objs[i].size, axis), Comp(objs[k].size, axis)), ToRat(2)), Rat(1, 1000))

\* C16: when an update() detects a new overlap with exactly one other eligible
\* object k, it resolves at least one axis; each resolution leaves the centres
\* half the combined size plus 0.001 apart on its axis; and if the tile resolver
\* did not act afterwards, the boxes do not overlap at the end of the update()
\* and the centres are still that far apart on each resolved axis.
NewOverlapResolved ==
    last.op = "update" =>
        \A k \in Objects :
            OnlyNewOverlap(k) =>
                LET i == last.obj
                    R == {e \in Resolutions : e.o = k}
                IN  /\ R # {}
                    /\ \A e \in ObjectEvents(last) : e \in R
                    /\ \A e \in R :
                        abs(Minus(Comp(e.posMe1, e.axis), Comp(objs[k].pos, e.axis)))
                            = Clearance(i, k, e.axis)
                    /\ TileEvents = {} =>
                        /\ ~OverlapsAt(objs[i].pos, i, k)
                        /\ \A e \in R :
                            abs(Minus(Comp(objs[i].pos, e.axis), Comp(objs[k].pos, e.axis)))
                                = Clearance(i, k, e.axis)

\* C16 witness: an update() moved a body into exactly one other object, which it
\* did not overlap before, resolved the overlap, and the tile resolver did not
\* act.
NewOverlapSeparated ==
    /\ last.op = "update"
    /\ TileEvents = {}
    /\ \E k \in Objects :
        /\ OnlyNewOverlap(k)
        /\ OverlapsAt(last.seen[1].pos, last.obj, k)
        /\ ~OverlapsAt(objs[last.obj].pos, last.obj, k)
        /\ \E e \in Resolutions : e.o = k /\ e.axis = "x"

\* the axes on which the most recent update() resolved a new overlap with k
AxesResolved(k) == {e.axis : e \in {f \in Resolutions : f.o = k}}

\* lines 709-711 for the most recent update() and the object k
StepUp(k) ==
    Less(Plus(Plus(objs[last.obj].size.y, objs[k].size.y), gravity),
         Times(Minus(last.oldPos.y, objs[k].pos.y), ToRat(2)))

\* the vertical extents overlapped at oldPos
WasBlockedX(k) ==
    Less(Times(abs(Minus(last.oldPos.y, objs[k].pos.y)), ToRat(2)),
         Plus(objs[last.obj].size.y, objs[k].size.y))

\* the horizontal extents overlapped at oldPos
WasBlockedY(k) ==
    Less(Times(abs(Minus(last.oldPos.x, objs[k].pos.x)), ToRat(2)),
         Plus(objs[last.obj].size.x, objs[k].size.x))

\* C17 (amended): a new overlap with k is resolved on the y axis only if
\* smallStepUp holds; otherwise on the y axis only if the horizontal extents
\* overlapped at oldPos, on the x axis only if the vertical extents overlapped
\* at oldPos, and on both axes, y first, if neither did.
AxisPriority ==
    last.op = "update" =>
        \A k \in Objects :
            AxesResolved(k) # {} =>
                /\ StepUp(k) => AxesResolved(k) = {"y"}
                /\ (~StepUp(k) /\ WasBlockedY(k)) => AxesResolved(k) = {"y"}
                /\ (~StepUp(k) /\ WasBlockedX(k)) => AxesResolved(k) = {"x"}
                /\ (~StepUp(k) /\ ~WasBlockedX(k) /\ ~WasBlockedY(k)) =>
                        /\ AxesResolved(k) = {"x", "y"}
                        /\ \A m, n \in DOMAIN last.events :
                            (/\ last.events[m].o = k /\ last.events[n].o = k
                             /\ last.events[m].axis = "y" /\ last.events[n].axis = "x") => m < n

\* C17 as stated: when neither extent overlapped at oldPos and smallStepUp does
\* not hold, the y axis is resolved and the x axis is not.
AxisPriorityPrefersY ==
    last.op = "update" =>
        \A k \in Objects :
            AxesResolved(k) # {} =>
                /\ StepUp(k) => AxesResolved(k) = {"y"}
                /\ (~StepUp(k) /\ WasBlockedY(k)) => AxesResolved(k) = {"y"}
                /\ (~StepUp(k) /\ WasBlockedX(k)) => AxesResolved(k) = {"x"}
                /\ (~StepUp(k) /\ ~WasBlockedX(k) /\ ~WasBlockedY(k)) =>
                        AxesResolved(k) = {"y"}

\* C17 witness: a body came at another diagonally, with neither extent
\* overlapping at oldPos and no small step up, and the overlap was resolved on
\* both axes.
DiagonalResolvedOnBoth ==
    /\ last.op = "update"
    /\ \E k \in Objects :
        /\ ~StepUp(k) /\ ~WasBlockedX(k) /\ ~WasBlockedY(k)
        /\ AxesResolved(k) = {"x", "y"}

\* the small step up: a body came at a low step from the side, its vertical
\* extent overlapping the step's at oldPos, and was put on top of it
SteppedUp ==
    /\ last.op = "update"
    /\ \E k \in Objects : StepUp(k) /\ WasBlockedX(k) /\ AxesResolved(k) = {"y"}

\* a pass over all registered bodies has just ended
PassEnded == scene = "pass" /\ calls > 0 /\ pass = 0

Follows(c) ==
    LET at == FollowsAt(objs[c], objs[objs[c].parent])
    IN  objs[c].pos = at.pos /\ objs[c].angle = at.angle

MomentumBefore(e) ==
    Plus(Times(objs[e.me].mass, Comp(e.vMe, e.axis)), Times(objs[e.o].mass, Comp(e.vO, e.axis)))

MomentumAfter(e) ==
    Plus(Times(objs[e.me].mass, Comp(e.vMe1, e.axis)), Times(objs[e.o].mass, Comp(e.vO1, e.axis)))

\* C19: whenever update() applies the inelastic/elastic blend to two movable
\* objects on an axis, the sum of mass times velocity on that axis is the same
\* after the response as before, for every elasticity and all positive masses.
BlendConservesMomentum ==
    last.op = "update" =>
        \A e \in Events : e.kind = "blend" => MomentumAfter(e) = MomentumBefore(e)

\* C19 witness: an update() blended the velocities of two objects with a blend
\* factor of 1/2, and both velocities changed.
BlendedHalfway ==
    /\ last.op = "update"
    /\ \E e \in Events :
        /\ e.kind = "blend"
        /\ max(objs[e.me].elasticity, objs[e.o].elasticity) = Rat(1, 2)
        /\ Comp(e.vMe1, e.axis) # Comp(e.vMe, e.axis)
        /\ Comp(e.vO1, e.axis) # Comp(e.vO, e.axis)

\* C20: after any sequence of addChild, removeChild and destroy calls whose
\* assertions hold, every body with a parent is listed exactly once in the
\* parent's children, and every member of the children of a body that is not
\* destroyed has that body as parent, so that no body is listed by two bodies
\* that are not destroyed.
HierarchyConsistent ==
    /\ \A c \in Objects :
        objs[c].parent # None => Count(objs[objs[c].parent].children, c) = 1
    /\ \A p \in Objects :
        ~objs[p].destroyed =>
            \A n \in DOMAIN objs[p].children : objs[objs[p].children[n]].parent = p
    /\ \A c \in Objects :
        Cardinality({p \in Objects : ~objs[p].destroyed /\ includes(objs[p].children, c)}) <= 1

\* C20 witness: a destroyed body still lists a child that a body that is not
\* destroyed has since taken as its own child.
StaleListAdopted ==
    \E p, q, c \in Objects :
        /\ p # q
        /\ objs[p].destroyed /\ includes(objs[p].children, c)
        /\ ~objs[q].destroyed /\ objs[c].parent = q /\ includes(objs[q].children, c)
        /\ last.op = "addChild"

====
